---- MODULE Spec2Model ----
(***************************************************************************)
(* Verification model of the Email-Campaign-Optimization repository.       *)
(*                                                                         *)
(* Number representation.  The JavaScript code works on doubles and on    *)
(* strings produced by toFixed.  The model uses exact integers:            *)
(*   - values read by MailchimpUtils.calculateImprovement are counted in   *)
(*     thousandths (the string "0.05" is 50); a value that toFixed(2)      *)
(*     produces is an integer number of hundredths;                        *)
(*   - rates of the dashboard (script.js) are counted in thousandths, the  *)
(*     precision DataSimulator gives them with toFixed(3);                 *)
(*   - p-values are counted in ten-thousandths, the precision of the       *)
(*     /abtest response.                                                   *)
(*   - dates of generateInsights are counted in months, Math.random() in   *)
(*     tenths;                                                             *)
(*   - a log entry of the sheets tracker is the rank of the appendToSheet  *)
(*     call that created it.                                               *)
(* Each component has its own specification (SpecImprove, SpecAB, ...);    *)
(* the variables of the other components stay at their idle value.         *)
(***************************************************************************)
EXTENDS Integers, Sequences, FiniteSets, TLC

VARIABLES
    baseline,       \* calculateImprovement: argument `baseline`
    optimized,      \* calculateImprovement: argument `optimized`
    improvements,   \* calculateImprovement: the returned object
    pcImprove,      \* "start" before the call, "done" after it returned
    allABTests,     \* script.js: the list of A/B tests handed to the renderer
    pValues,        \* the p-value the chi-square primitive yields for each test
    abCards,        \* renderABTestResults: the cards appended to #ab-test-results
    pcAB,           \* "start" before renderABTestResults, "rendered" after
    variantA,       \* significance test: first variant (sampleSize, occurred)
    variantB,       \* significance test: second variant
    pExt,           \* significance test: p_value returned by chi2_contingency
    testResult,     \* significance test: the response (result or error)
    allCampaigns,   \* script.js: the campaign records handed to renderKeyMetrics
    allMonthlyPerformance, \* script.js: the monthly performance records
    splitAt,        \* number of leading campaigns aggregated in a first step
    keyMetrics,     \* renderKeyMetrics(allCampaigns, ..): what the cards show
    partialMetrics, \* renderKeyMetrics on the first splitAt campaigns
    combinedMetrics,\* renderKeyMetrics on that result and the other campaigns
    pcAgg,          \* "start", then "rendered" once keyMetrics is written
    rawData,        \* formatCampaignData: argument `rawData`
    formatted,      \* formatCampaignData: the returned object
    pcFormat,       \* "start" before the call, "done" after it returned
    campaignData,   \* updateCampaignTotals: what getCampaignData returned
    eventType,      \* updateCampaignTotals: argument `eventType`
    updates,        \* updateCampaignTotals: the `updates` object
    campaignRow,    \* the campaign's row of the campaigns sheet
    pcTotals,       \* "start" before updateCampaignTotals, "done" after
    insightArgs,    \* generateInsights: campaigns, abTests, monthlyPerformance
    currentInsights,\* InsightsGenerator: the stored list of insights
    firstInsights,  \* what the first generateInsights call returned
    pcInsights,     \* "start", "once" after one call, "twice" after two
    overlayHidden,  \* #loading-overlay has the class 'hidden'
    pcDashboard,    \* initializeDashboard: where the run is
    mockData,       \* what the generateMockData promise resolves with
    sections,       \* the dashboard sections rendered so far
    toast,          \* the 'Dashboard loaded successfully!' toast
    initialized,    \* SheetsTracker: this.initialized
    batchData,      \* SheetsTracker: this.batchData, the entries queued
    pcInit,         \* SheetsTracker.initialize: where the call is
    sheetsDone,     \* createSheetsIfNotExists: sheets handled so far
    allRequestsFailed, \* every request of initialize failed so far
    autoSync,       \* startAutoSync has set the interval timer
    runs,           \* the processBatchedData calls, one record per call slot
    inFlight,       \* entries of log calls whose append request is pending
    written,        \* number of successful appends per entry
    logged,         \* number of appendToSheet calls made by log methods
    failures,       \* number of append requests that failed
    sheetRow,       \* the campaign's row of the campaigns sheet, as stored
    calls,          \* logEngagementEvent / updateCampaignData calls
    rangesRequested,\* fields an updateRange request was made for
    requestFailed,  \* some request to the sheets service failed
    reportSummary,  \* getCampaignStats: data.report_summary of the response
    campaignStats,  \* getCampaignStats: what the call returned
    pcStats         \* "start" before getCampaignStats, "done" after

varsImprove == <<baseline, optimized, improvements, pcImprove>>

varsAB == <<allABTests, pValues, abCards, pcAB>>

varsSig == <<variantA, variantB, pExt, testResult>>

varsAgg == <<allCampaigns, allMonthlyPerformance, splitAt, keyMetrics,
             partialMetrics, combinedMetrics, pcAgg>>

varsFormat == <<rawData, formatted, pcFormat>>

varsTotals == <<campaignData, eventType, updates, campaignRow, pcTotals>>

varsInsights == <<insightArgs, currentInsights, firstInsights, pcInsights>>

varsDashboard == <<overlayHidden, pcDashboard, mockData, sections, toast>>

varsTracker == <<initialized, batchData, pcInit, sheetsDone, allRequestsFailed,
                 autoSync, runs, inFlight, written, logged, failures>>

varsEngage == <<sheetRow, calls, rangesRequested, requestFailed>>

varsStats == <<reportSummary, campaignStats, pcStats>>

vars == <<baseline, optimized, improvements, pcImprove,
          allABTests, pValues, abCards, pcAB,
          variantA, variantB, pExt, testResult,
          allCampaigns, allMonthlyPerformance, splitAt, keyMetrics,
          partialMetrics, combinedMetrics, pcAgg,
          rawData, formatted, pcFormat,
          campaignData, eventType, updates, campaignRow, pcTotals,
          insightArgs, currentInsights, firstInsights, pcInsights,
          overlayHidden, pcDashboard, mockData, sections, toast,
          initialized, batchData, pcInit, sheetsDone, allRequestsFailed,
          autoSync, runs, inFlight, written, logged, failures,
          sheetRow, calls, rangesRequested, requestFailed,
          reportSummary, campaignStats, pcStats>>

----------------------------------------------------------------------------
(* Generic arithmetic helpers                                              *)

Abs(n) == IF n < 0 THEN -n ELSE n

\* Number.prototype.toFixed rounds to the nearest representable decimal,
\* halves away from zero: RoundDiv(n, d) is n/d rounded that way (d > 0).
RoundDivTrunc(n, d) == IF n >= 0 THEN n \div d ELSE -((-n) \div d)

RoundDiv(n, d) ==
    IF n >= 0 THEN (2 * n + d) \div (2 * d)
              ELSE -((2 * (-n) + d) \div (2 * d))

----------------------------------------------------------------------------
(* MailchimpUtils.calculateImprovement  (src/mailchimp_integration.js)     *)

\* The metrics the forEach of calculateImprovement walks over.
Metrics == {"openRate", "clickRate", "deliveryRate"}

\* A raw property value of the argument objects: <<"num", t>> is a number
\* or numeric string worth t thousandths, <<"nan", 0>> anything parseFloat
\* turns into NaN (undefined, "", "n/a").
RawVals ==
    { <<"nan", 0>>, <<"num", -200>>, <<"num", 0>>, <<"num", 50>>,
      <<"num", 125>>, <<"num", 300>> }

\* parseFloat(x) || 0
ParseFloatOrZero(raw) == IF raw[1] = "num" THEN raw[2] ELSE 0

\* The entry built for one metric (lines 498-503).  baseline and optimized
\* are the parsed numbers (thousandths); improvement is the toFixed(2)
\* string of the relative change in percent (hundredths of a percent);
\* absolute is the toFixed(2) string of the difference (hundredths).
ImprovementEntry(baseValue, optValue) ==
    [ baseline    |-> baseValue,
      optimized   |-> optValue,
      improvement |-> RoundDiv((optValue - baseValue) * 10000, baseValue),
      absolute    |-> RoundDiv(optValue - baseValue, 10) ]

\* The guard of line 497.
HasEntry(baseValue) == baseValue > 0

\* The object returned by calculateImprovement(b, o): a function whose
\* domain is the set of metrics that received an entry.
calculateImprovement(b, o) ==
    [ metric \in { m \in Metrics : HasEntry(ParseFloatOrZero(b[m])) } |->
        ImprovementEntry(ParseFloatOrZero(b[metric]),
                         ParseFloatOrZero(o[metric])) ]

NoImprovements == [ metric \in {} |-> 0 ]

ImproveInit ==
    /\ baseline \in [Metrics -> RawVals]
    /\ optimized \in [Metrics -> RawVals]
    /\ improvements = NoImprovements
    /\ pcImprove = "start"

\* The component is not in use.
ImproveIdle ==
    /\ baseline = [m \in Metrics |-> <<"nan", 0>>]
    /\ optimized = [m \in Metrics |-> <<"nan", 0>>]
    /\ improvements = NoImprovements
    /\ pcImprove = "idle"

\* calculateImprovement storing the parsed numbers back into its arguments.
CalculateImprovementInPlace ==
    /\ pcImprove = "start"
    /\ improvements' = calculateImprovement(baseline, optimized)
    /\ pcImprove' = "done"
    /\ baseline' = [m \in Metrics |-> <<"num", ParseFloatOrZero(baseline[m])>>]
    /\ optimized' = [m \in Metrics |-> <<"num", ParseFloatOrZero(optimized[m])>>]

CalculateImprovement ==
    /\ pcImprove = "start"
    /\ improvements' = calculateImprovement(baseline, optimized)
    /\ pcImprove' = "done"
    /\ UNCHANGED <<baseline, optimized>>

\* The parsed values calculateImprovement works on for metric m.
BaseOf(m) == ParseFloatOrZero(baseline[m])
OptOf(m) == ParseFloatOrZero(optimized[m])

\* The value the spec calls null.
Null == "null"

\* C1: the improvement calculator returns an entry for every metric, also
\* for a zero baseline, where the relative change is null and the absolute
\* change is optimized - baseline; no metric is missing from the result.
C1_EveryMetricHasEntry ==
    pcImprove = "done" =>
        \A m \in Metrics :
            /\ m \in DOMAIN improvements
            /\ 2 * Abs(improvements[m].absolute * 10 - (OptOf(m) - BaseOf(m))) <= 10
            /\ (BaseOf(m) = 0 => improvements[m].improvement = Null)

----------------------------------------------------------------------------
(* The chi-square significance test                                        *)
(* (README example run_ab_test, src/unnamed/part_000; /abtest endpoint,    *)
(* src/unnamed/part_001; spec.md section 4.3 for what the backend, which   *)
(* is not part of the sources, does before and after that example)         *)

\* p-values are counted in ten-thousandths ("p_value": "0.0455" is 455).
PScale == 10000

\* The threshold of `p_value < 0.05`.
Alpha == 500

\* The p-values the model lets the chi-square primitive return.
PGrid == {0, 455, 499, 500, PScale}

\* stats.chi2_contingency(observed_data): a library primitive, modelled by
\* the set of p-values it may return for the 2x2 table
\*   (occA, nA - occA) / (occB, nB - occB).
\* Proportional rows give the statistic 0 and the p-value 1.
chi2_contingency(occA, nA, occB, nB) ==
    IF occA * (nB - occB) = occB * (nA - occA) THEN {PScale} ELSE PGrid

SignificantAtOrBelow(p_value) == p_value <= Alpha

\* 'significant': p_value < 0.05
Significant(p_value) == p_value < Alpha

\* 'confidence': (1 - p_value) * 100, in hundredths of a percent
\* ("confidence": "95.45%" is 9545).
Confidence(p_value) == ((PScale - p_value) * 100 * 100) \div PScale

\* The dictionary returned by run_ab_test.
run_ab_test(p_value) ==
    [ significant |-> Significant(p_value),
      p_value     |-> p_value,
      confidence  |-> Confidence(p_value) ]

\* Validation of spec.md 4.3: a sample size <= 0, or more occurrences than
\* recipients (a negative cell of the contingency table).
InsufficientDataSizeOnly(vA, vB) ==
    \/ vA.sampleSize <= 0
    \/ vB.sampleSize <= 0

InsufficientData(vA, vB) ==
    \/ vA.sampleSize <= 0
    \/ vB.sampleSize <= 0
    \/ vA.occurred > vA.sampleSize
    \/ vB.occurred > vB.sampleSize

\* An expected frequency is 0 exactly when a column total is 0 (the row
\* totals are positive after validation): the test is inconclusive.
DegenerateTable(vA, vB) ==
    \/ vA.occurred + vB.occurred = 0
    \/ (vA.sampleSize - vA.occurred) + (vB.sampleSize - vB.occurred) = 0

InsufficientDataError == [ error |-> "InsufficientDataError" ]

NoResult == [ none |-> TRUE ]

IsError(r) == "error" \in DOMAIN r

IsResult(r) == "p_value" \in DOMAIN r

\* winnerLabel of spec.md 4.3: "inconclusive" unless the test is
\* significant and one rate occurred / sampleSize is strictly higher.
WinnerLabel(vA, vB, significant) ==
    IF ~significant THEN "inconclusive"
    ELSE IF vA.occurred * vB.sampleSize > vB.occurred * vA.sampleSize THEN "A"
    ELSE IF vB.occurred * vA.sampleSize > vA.occurred * vB.sampleSize THEN "B"
    ELSE "inconclusive"

\* The successful response: the fields of run_ab_test and the winner.
TestResult(vA, vB, p) ==
    [ significant |-> run_ab_test(p).significant,
      p_value     |-> run_ab_test(p).p_value,
      confidence  |-> run_ab_test(p).confidence,
      winner      |-> WinnerLabel(vA, vB, run_ab_test(p).significant) ]

\* The response of the significance test for the p-value p the primitive
\* returned.
runSignificanceTest(vA, vB, p) ==
    IF InsufficientData(vA, vB) THEN InsufficientDataError
    ELSE IF DegenerateTable(vA, vB) THEN TestResult(vA, vB, PScale)
    ELSE TestResult(vA, vB, p)

SampleSizes == {-1, 0, 1, 2, 3}

Occurrences == {0, 1, 2, 3}

Variants == [sampleSize : SampleSizes, occurred : Occurrences]

SigInit ==
    /\ variantA \in Variants
    /\ variantB \in Variants
    /\ pExt \in chi2_contingency(variantA.occurred, variantA.sampleSize,
                                 variantB.occurred, variantB.sampleSize)
    /\ testResult = NoResult

SigIdle ==
    /\ variantA = [sampleSize |-> 0, occurred |-> 0]
    /\ variantB = [sampleSize |-> 0, occurred |-> 0]
    /\ pExt = PScale
    /\ testResult = [ idle |-> TRUE ]

RunSignificanceTest ==
    /\ testResult = NoResult
    /\ testResult' = runSignificanceTest(variantA, variantB, pExt)
    /\ UNCHANGED <<variantA, variantB, pExt>>

----------------------------------------------------------------------------
(* UIRenderer.renderABTestResults  (src/script.js)                         *)

\* DataSimulator.generateMockData(15, 3): the dashboard holds three tests.
NumABTests == 3

\* generateABTest gives both variants the same number of recipients.
ABSampleSize == 1000

\* Variants a test can be made of; openRate and ctr in thousandths.
VariantPool ==
    { [label |-> "X", recipients |-> ABSampleSize, openRate |-> 250, ctr |-> 30],
      [label |-> "X", recipients |-> ABSampleSize, openRate |-> 300, ctr |-> 40],
      [label |-> "Y", recipients |-> ABSampleSize, openRate |-> 250, ctr |-> 40],
      [label |-> "Y", recipients |-> ABSampleSize, openRate |-> 300, ctr |-> 30] }

TestTypes == {"Subject Line", "CTA"}

ABTests ==
    { t \in [type : TestTypes, variantA : VariantPool, variantB : VariantPool] :
        t.variantA.label # t.variantB.label }

\* Opens of a variant: recipients * openRate.
Opens(v) == (v.recipients * v.openRate) \div 1000

\* The p-values the chi-square test can yield for the open rates of t.
TestPValues(t) ==
    chi2_contingency(Opens(t.variantA), t.variantA.recipients,
                     Opens(t.variantB), t.variantB.recipients)

\* Lines 314-315.
Winner(t) ==
    IF t.variantA.openRate > t.variantB.openRate THEN t.variantA ELSE t.variantB

Loser(t) ==
    IF t.variantA.openRate <= t.variantB.openRate THEN t.variantA ELSE t.variantB

\* The card of one test (lines 317-348): labels as shown in the "Winner:"
\* line, metrics and percentageDiff in tenths of a percent (toFixed(1)).
Card(t) ==
    [ winner         |-> Winner(t).label,
      loser          |-> Loser(t).label,
      winnerMetric   |-> RoundDiv(Winner(t).openRate * 100 * 10, 1000),
      loserMetric    |-> RoundDiv(Loser(t).openRate * 100 * 10, 1000),
      percentageDiff |-> RoundDiv((Winner(t).openRate - Loser(t).openRate) * 100 * 10,
                                  Loser(t).openRate) ]

renderABTestResults(abTests) == [i \in 1..Len(abTests) |-> Card(abTests[i])]

ABInit ==
    /\ allABTests \in UNION { [1..n -> ABTests] : n \in 0..NumABTests }
    /\ pValues \in UNION { [1..n -> PGrid] : n \in 0..NumABTests }
    /\ Len(pValues) = Len(allABTests)
    /\ \A i \in 1..Len(allABTests) : pValues[i] \in TestPValues(allABTests[i])
    /\ abCards = <<>>
    /\ pcAB = "start"

ABIdle ==
    /\ allABTests = <<>>
    /\ pValues = <<>>
    /\ abCards = <<>>
    /\ pcAB = "idle"

RenderABTestResults ==
    /\ pcAB = "start"
    /\ abCards' = renderABTestResults(allABTests)
    /\ pcAB' = "rendered"
    /\ UNCHANGED <<allABTests, pValues>>

----------------------------------------------------------------------------
(* UIRenderer.renderKeyMetrics  (src/script.js)                            *)
(* A rate is an exact fraction <<numerator, denominator>> of thousandths,  *)
(* so that an average can be fed back into the aggregation unrounded.      *)

\* Largest number of campaigns in the list.
MaxCampaigns == 3

Rat(n) == <<n, 1>>

RatAdd(a, b) == <<a[1] * b[2] + b[1] * a[2], a[2] * b[2]>>

\* a / n for a positive integer n.
RatDivInt(a, n) == <<a[1], a[2] * n>>

\* Campaign records as generateCampaign builds them (the fields the
\* aggregation reads, and recipients).
CampaignPool ==
    { [recipients |-> 1000, openRate |-> Rat(200), ctr |-> Rat(20),
       conversionRate |-> Rat(10)],
      [recipients |-> 9000, openRate |-> Rat(400), ctr |-> Rat(80),
       conversionRate |-> Rat(50)],
      [recipients |-> 1000, openRate |-> Rat(400), ctr |-> Rat(20),
       conversionRate |-> Rat(10)] }

\* Monthly performance lists as generateMonthlyPerformance builds them
\* (rates in thousandths, never 0).
MonthlyPool ==
    { << [openRate |-> 300, ctr |-> 40, conversionRate |-> 20],
         [openRate |-> 320, ctr |-> 38, conversionRate |-> 20] >>,
      << [openRate |-> 310, ctr |-> 41, conversionRate |-> 23],
         [openRate |-> 300, ctr |-> 45, conversionRate |-> 21],
         [openRate |-> 290, ctr |-> 45, conversionRate |-> 24] >> }

\* campaigns.reduce((sum, c) => sum + c[f], 0)
RECURSIVE SumField(_, _)
SumField(campaigns, f) ==
    IF campaigns = <<>> THEN Rat(0)
    ELSE RatAdd(SumField(SubSeq(campaigns, 1, Len(campaigns) - 1), f),
                campaigns[Len(campaigns)][f])

\* Sum-then-derive: the rate f of the summed counts, each campaign counted
\* with its recipients.
WeightedAverage(campaigns, f) ==
    LET weighted == [i \in 1..Len(campaigns) |->
                       [w |-> <<campaigns[i][f][1] * campaigns[i].recipients,
                                campaigns[i][f][2]>>]]
        total == [i \in 1..Len(campaigns) |->
                       [w |-> Rat(campaigns[i].recipients)]]
    IN  <<SumField(weighted, "w")[1] * SumField(total, "w")[2],
          SumField(weighted, "w")[2] * SumField(total, "w")[1]>>

\* Lines 216-218: the sum of the per-campaign rates over totalCampaigns.
Average(campaigns, f) == RatDivInt(SumField(campaigns, f), Len(campaigns))

\* `${(rate * 100).toFixed(1)}%`: tenths of a percent.
PercentText(rate) == RoundDiv(rate[1], rate[2])

\* Lines 229-231: ((last - secondLast) / secondLast * 100).toFixed(1), in
\* tenths of a percent.
Trend(monthlyPerformance, f) ==
    LET lastMonth == monthlyPerformance[Len(monthlyPerformance)]
        secondLastMonth == monthlyPerformance[Len(monthlyPerformance) - 1]
    IN  RoundDiv((lastMonth[f] - secondLastMonth[f]) * 100 * 10,
                 secondLastMonth[f])

\* updateTrendIndicator: the colour class of the arrow.
TrendClass(trendValue) ==
    IF trendValue >= 0 THEN "text-green-600" ELSE "text-red-600"

\* What renderKeyMetrics computes and writes into the key metric cards.
renderKeyMetrics(campaigns, monthlyPerformance) ==
    [ totalCampaigns        |-> Len(campaigns),
      avgOpenRate           |-> Average(campaigns, "openRate"),
      avgCtr                |-> Average(campaigns, "ctr"),
      avgConversionRate     |-> Average(campaigns, "conversionRate"),
      avgOpenRateText       |-> PercentText(Average(campaigns, "openRate")),
      avgCtrText            |-> PercentText(Average(campaigns, "ctr")),
      avgConversionRateText |-> PercentText(Average(campaigns, "conversionRate")),
      openRateTrendText       |-> Abs(Trend(monthlyPerformance, "openRate")),
      ctrTrendText            |-> Abs(Trend(monthlyPerformance, "ctr")),
      conversionRateTrendText |-> Abs(Trend(monthlyPerformance, "conversionRate")),
      openRateTrendClass       |-> TrendClass(Trend(monthlyPerformance, "openRate")),
      ctrTrendClass            |-> TrendClass(Trend(monthlyPerformance, "ctr")),
      conversionRateTrendClass |-> TrendClass(Trend(monthlyPerformance, "conversionRate")) ]

NoMetrics == [ none |-> TRUE ]

\* The result of an aggregation as one record of a further aggregation:
\* the group's recipients and the group's rates.
AsCampaign(campaigns, metrics) ==
    [ recipients     |-> SumField([i \in 1..Len(campaigns) |->
                             [w |-> Rat(campaigns[i].recipients)]], "w")[1],
      openRate       |-> metrics.avgOpenRate,
      ctr            |-> metrics.avgCtr,
      conversionRate |-> metrics.avgConversionRate ]

FirstGroup == SubSeq(allCampaigns, 1, splitAt)

OtherCampaigns == SubSeq(allCampaigns, splitAt + 1, Len(allCampaigns))

AggInit ==
    /\ allCampaigns \in UNION { [1..n -> CampaignPool] : n \in 1..MaxCampaigns }
    /\ allMonthlyPerformance \in MonthlyPool
    /\ splitAt \in 1..Len(allCampaigns)
    /\ keyMetrics = NoMetrics
    /\ partialMetrics = NoMetrics
    /\ combinedMetrics = NoMetrics
    /\ pcAgg = "start"

AggIdle ==
    /\ allCampaigns = <<>>
    /\ allMonthlyPerformance = <<>>
    /\ splitAt = 0
    /\ keyMetrics = NoMetrics
    /\ partialMetrics = NoMetrics
    /\ combinedMetrics = NoMetrics
    /\ pcAgg = "idle"

\* renderKeyMetrics(allCampaigns, allMonthlyPerformance)
RenderKeyMetrics ==
    /\ pcAgg = "start"
    /\ keyMetrics' = renderKeyMetrics(allCampaigns, allMonthlyPerformance)
    /\ pcAgg' = "rendered"
    /\ UNCHANGED <<allCampaigns, allMonthlyPerformance, splitAt,
                   partialMetrics, combinedMetrics>>

\* renderKeyMetrics on the first splitAt campaigns only.
RenderFirstGroup ==
    /\ pcAgg \in {"start", "rendered"}
    /\ partialMetrics = NoMetrics
    /\ partialMetrics' = renderKeyMetrics(FirstGroup, allMonthlyPerformance)
    /\ UNCHANGED <<allCampaigns, allMonthlyPerformance, splitAt, keyMetrics,
                   combinedMetrics, pcAgg>>

\* renderKeyMetrics on the first group's result and the other campaigns.
RenderCombined ==
    /\ partialMetrics # NoMetrics
    /\ combinedMetrics = NoMetrics
    /\ combinedMetrics' =
           renderKeyMetrics(<<AsCampaign(FirstGroup, partialMetrics)>>
                                \o OtherCampaigns,
                            allMonthlyPerformance)
    /\ UNCHANGED <<allCampaigns, allMonthlyPerformance, splitAt, keyMetrics,
                   partialMetrics, pcAgg>>

----------------------------------------------------------------------------
(* MailchimpUtils.formatCampaignData  (src/mailchimp_integration.js)       *)
(* A JavaScript number is <<"num", n>>, <<"inf", sign>> or <<"nan", 0>>;   *)
(* a property that is absent is Undefined.                                 *)

\* Largest count of a campaign (emails sent, opens, ...).
MaxCount == 3

Num(n) == <<"num", n>>

Infinity(sign) == <<"inf", sign>>

NaN == <<"nan", 0>>

Undefined == <<"undefined", 0>>

IsNum(x) == x[1] = "num"

\* x || 0 for a number or undefined x: 0, NaN and undefined give 0.
OrZero(x) == IF IsNum(x) /\ x[2] # 0 THEN x ELSE IF x[1] = "inf" THEN x ELSE Num(0)

\* Truthiness of a number or undefined.
Truthy(x) == (IsNum(x) /\ x[2] # 0) \/ x[1] = "inf"

\* n / d for integers, rounded to the nearest integer, halves away from 0.
RoundQuot(n, d) ==
    IF d > 0 THEN RoundDiv(n, d) ELSE RoundDiv(-n, -d)

\* (a / b * 100).toFixed(2) for integer counts a and b, in hundredths of a
\* percent; a division by 0 gives the strings "NaN", "Infinity", "-Infinity".
PercentOfCounts(a, b) ==
    IF b # 0 THEN Num(RoundQuot(a * 100 * 100, b))
    ELSE IF a = 0 THEN NaN
    ELSE IF a > 0 THEN Infinity(1) ELSE Infinity(-1)

\* ((rate || 0) * 100).toFixed(2) for a rate given in hundred-thousandths,
\* in hundredths of a percent.
PercentOfRate(rate) == Num(RoundQuot(OrZero(rate)[2] * 100, 1000))

\* The property p of rawData.stats (rawData.stats?.p).
Stat(raw, p) == IF raw.hasStats THEN raw.stats[p] ELSE Undefined

\* The property p of rawData.campaignInfo (rawData.campaignInfo?.p).
Info(raw, p) == IF raw.hasInfo THEN raw.campaignInfo[p] ELSE "undefined"

\* Lines 482-483.
DeliveryRate(raw) ==
    IF Truthy(Stat(raw, "delivered"))
    THEN PercentOfCounts(raw.stats.delivered[2], raw.stats.emailsSent[2])
    ELSE Num(0)

formatCampaignData(raw) ==
    [ campaignId   |-> Info(raw, "id"),
      title        |-> Info(raw, "title"),
      subjectLine  |-> Info(raw, "subjectLine"),
      status       |-> Info(raw, "status"),
      sendTime     |-> Info(raw, "sendTime"),
      emailsSent   |-> OrZero(Stat(raw, "emailsSent")),
      delivered    |-> OrZero(Stat(raw, "delivered")),
      opens        |-> OrZero(Stat(raw, "opens")),
      uniqueOpens  |-> OrZero(Stat(raw, "uniqueOpens")),
      openRate     |-> PercentOfRate(Stat(raw, "openRate")),
      clicks       |-> OrZero(Stat(raw, "clicks")),
      uniqueClicks |-> OrZero(Stat(raw, "uniqueClicks")),
      clickRate    |-> PercentOfRate(Stat(raw, "clickRate")),
      unsubscribes |-> OrZero(Stat(raw, "unsubscribes")),
      bounces      |-> OrZero(Stat(raw, "bounces")),
      deliveryRate |-> DeliveryRate(raw) ]

\* The campaignInfo object getCampaignStats builds.
CampaignInfos ==
    { [id |-> "c1", title |-> "t1", subjectLine |-> "s1", status |-> "sent",
       sendTime |-> "2024-04-01"] }

\* Rates as the Mailchimp report gives them, in hundred-thousandths.
RateFractions == {Num(0), Num(33333), Num(100000)}

\* The stats object getCampaignStats builds: counts as numbers; delivered
\* is emails_sent minus the bounces and can be negative.
StatsObjects ==
    [ emailsSent   : {Num(n) : n \in 0..MaxCount},
      delivered    : {Num(n) : n \in -1..MaxCount},
      opens        : {Num(0), Num(2)},
      uniqueOpens  : {Num(0), Num(1)},
      openRate     : RateFractions,
      clicks       : {Num(0), Num(1)},
      uniqueClicks : {Num(0), Num(1)},
      clickRate    : RateFractions,
      unsubscribes : {Num(0)},
      bounces      : {Num(0), Num(1)} ]

NoStats == [ none |-> TRUE ]

NoFormatted == [ none |-> TRUE ]

FormatInit ==
    /\ rawData \in
         [ hasInfo : BOOLEAN, campaignInfo : CampaignInfos,
           hasStats : {TRUE}, stats : StatsObjects ]
         \cup [ hasInfo : BOOLEAN, campaignInfo : CampaignInfos,
                hasStats : {FALSE}, stats : {NoStats} ]
    /\ formatted = NoFormatted
    /\ pcFormat = "start"

FormatIdle ==
    /\ rawData = [ hasInfo |-> FALSE, hasStats |-> FALSE ]
    /\ formatted = NoFormatted
    /\ pcFormat = "idle"

FormatCampaignData ==
    /\ pcFormat = "start"
    /\ formatted' = formatCampaignData(rawData)
    /\ pcFormat' = "done"
    /\ UNCHANGED rawData

----------------------------------------------------------------------------
(* SheetsTracker.updateCampaignTotals  (src/sheets_tracker.js, second      *)
(* class).  getCampaignData and updateRange are requests to the sheet:     *)
(* the row they return and whether a write succeeds are inputs.            *)

\* (count / emailsSent * 100).toFixed(2) for a whole count and the
\* emailsSent cell of the row; a missing cell makes the quotient NaN.
RateOfTotal(count, emailsSent) ==
    IF IsNum(emailsSent) THEN PercentOfCounts(count, emailsSent[2]) ELSE NaN

\* Lines 749-764: the `updates` object for a row and an event type.
NoUpdates == << >>

UpdatesFor(data, event) ==
    CASE event = "open" ->
           [ opens    |-> Num(OrZero(data.opens)[2] + 1),
             openRate |-> RateOfTotal(OrZero(data.opens)[2] + 1,
                                      data.emailsSent) ]
      [] event = "click" ->
           [ clicks    |-> Num(OrZero(data.clicks)[2] + 1),
             clickRate |-> RateOfTotal(OrZero(data.clicks)[2] + 1,
                                       data.emailsSent) ]
      [] event = "unsubscribe" ->
           [ unsubscribes |-> Num(OrZero(data.unsubscribes)[2] + 1) ]
      [] OTHER -> NoUpdates

\* eventData.eventType of logEngagementEvent, and one the switch ignores.
EventTypes == {"open", "click", "unsubscribe", "bounce"}

\* A cell of a count column: a number up to MaxCount, or empty.
CountCells == {Undefined} \cup {Num(n) : n \in 0..MaxCount}

\* Rows of the campaigns sheet as getCampaignData returns them.
CampaignRows ==
    [ emailsSent   : CountCells,
      opens        : CountCells,
      clicks       : CountCells,
      unsubscribes : {Undefined, Num(0)},
      openRate     : {Num(0)},
      clickRate    : {Num(0)} ]

\* getCampaignData found no row.
NoCampaign == [ none |-> TRUE ]

TotalsInit ==
    /\ campaignData \in CampaignRows \cup {NoCampaign}
    /\ eventType \in EventTypes
    /\ updates = NoUpdates
    /\ campaignRow = campaignData
    /\ pcTotals = "start"

TotalsIdle ==
    /\ campaignData = NoCampaign
    /\ eventType = "none"
    /\ updates = NoUpdates
    /\ campaignRow = NoCampaign
    /\ pcTotals = "idle"

\* updateCampaignTotals(campaignId, eventType), with the updateCampaignData
\* call it ends with: each updateRange request of a field may fail, and
\* `succeeded` are the fields whose request succeeded.
UpdateCampaignTotals ==
    /\ pcTotals = "start"
    /\ pcTotals' = "done"
    /\ IF campaignData = NoCampaign
       THEN UNCHANGED <<updates, campaignRow>>
       ELSE /\ updates' = UpdatesFor(campaignData, eventType)
            /\ \E succeeded \in SUBSET DOMAIN updates' :
                 campaignRow' =
                   [ f \in DOMAIN campaignRow |->
                       IF f \in succeeded THEN updates'[f] ELSE campaignRow[f] ]
    /\ UNCHANGED <<campaignData, eventType>>

----------------------------------------------------------------------------
(* InsightsGenerator.generateInsights  (src/script.js)                     *)
(* Dates are counted in months; Math.random() in tenths.                   *)

\* Longest campaigns and abTests lists handed to generateInsights.
MaxInsightInputs == 2

\* Campaigns as generateCampaign builds them (the fields insight 1 reads).
InsightCampaigns ==
    { [name |-> "Weekly Marketing Insights", ctr |-> 60, sendDate |-> 5],
      [name |-> "Weekly Marketing Insights", ctr |-> 40, sendDate |-> 5],
      [name |-> "Flash Sale Alert!", ctr |-> 60, sendDate |-> 1] }

\* A/B tests as generateABTest builds them.
InsightTests ==
    { t \in ABTests : t.variantA.label = "X" /\ t.variantA.openRate = 250 }

\* c.name.includes("Weekly") || .includes("Update") || .includes("Wins")
NameHasKeyword(name) ==
    name \in {"Weekly Marketing Insights", "Product Update: New Features!"}

\* new Date() at the time of the call, and what Math.random() returns.
Nows == {6, 9}

Randoms == {1, 3, 5}

\* Lines 475-488: insight 1.
Insight1(campaigns, now) ==
    LET recentCampaigns == SelectSeq(campaigns, LAMBDA c : c.sendDate > now - 3)
        highPerformingCampaigns ==
            SelectSeq(recentCampaigns,
                      LAMBDA c : c.ctr > 50 /\ NameHasKeyword(c.name))
    IN  IF Len(recentCampaigns) > 0 /\ Len(highPerformingCampaigns) > 0
        THEN << [id |-> "insight-1", index |-> 0, winner |-> "", diff |-> 0] >>
        ELSE << >>

\* Lines 490-518: insights 2 (metric openRate, threshold 10) and 3 (metric
\* ctr, threshold 20); percentageDiff is toFixed(0).
TestInsights(abTests, type, metric, id, threshold) ==
    LET tests == SelectSeq(abTests, LAMBDA t : t.type = type)
        winner(t) == IF t.variantA[metric] > t.variantB[metric]
                     THEN t.variantA ELSE t.variantB
        loser(t)  == IF t.variantA[metric] <= t.variantB[metric]
                     THEN t.variantA ELSE t.variantB
        percentageDiff(t) ==
            RoundDiv((winner(t)[metric] - loser(t)[metric]) * 100,
                     loser(t)[metric])
        all == [ i \in 1..Len(tests) |->
                   [ id |-> id, index |-> i - 1,
                     winner |-> winner(tests[i]).label,
                     diff |-> percentageDiff(tests[i]) ] ]
    IN  SelectSeq(all, LAMBDA x : x.diff > threshold)

\* Lines 520-527: insight 4.
Insight4(random) ==
    IF random > 3
    THEN << [id |-> "insight-4", index |-> 0, winner |-> "", diff |-> 0] >>
    ELSE << >>

\* Lines 529-547: insight 5; conversion rates in thousandths.
Insight5(monthlyPerformance) ==
    LET n == Len(monthlyPerformance)
        lastMonthConversion == monthlyPerformance[n].conversionRate
        previous == [ i \in 1..(n - 1) |->
                        [ w |-> Rat(monthlyPerformance[i].conversionRate) ] ]
        sumPrev == SumField(previous, "w")[1]
    IN  IF n < 2 THEN << >>
        ELSE IF lastMonthConversion * (n - 1) * 100 < sumPrev * 90
        THEN << [id |-> "insight-5-down", index |-> 0, winner |-> "", diff |-> 0] >>
        ELSE IF lastMonthConversion * (n - 1) * 100 > sumPrev * 105
        THEN << [id |-> "insight-5-up", index |-> 0, winner |-> "", diff |-> 0] >>
        ELSE << >>

generateInsights(campaigns, abTests, monthlyPerformance, now, random) ==
    Insight1(campaigns, now)
      \o TestInsights(abTests, "Subject Line", "openRate", "insight-2", 10)
      \o TestInsights(abTests, "CTA", "ctr", "insight-3", 20)
      \o Insight4(random)
      \o Insight5(monthlyPerformance)

NoInsights == << [ none |-> TRUE ] >>

InsightsInit ==
    /\ insightArgs \in
         [ campaigns : UNION { [1..n -> InsightCampaigns] :
                                 n \in 0..MaxInsightInputs },
           abTests : UNION { [1..n -> InsightTests] :
                               n \in 0..MaxInsightInputs },
           monthlyPerformance : MonthlyPool ]
    /\ currentInsights = << >>
    /\ firstInsights = NoInsights
    /\ pcInsights = "start"

InsightsIdle ==
    /\ insightArgs = [ none |-> TRUE ]
    /\ currentInsights = << >>
    /\ firstInsights = NoInsights
    /\ pcInsights = "idle"

\* One call generateInsights(campaigns, abTests, monthlyPerformance) with the
\* same arguments as the call before it.
GenerateInsights ==
    /\ pcInsights \in {"start", "once"}
    /\ \E now \in Nows, random \in Randoms :
         currentInsights' =
             generateInsights(insightArgs.campaigns, insightArgs.abTests,
                              insightArgs.monthlyPerformance, now, random)
    /\ firstInsights' = IF pcInsights = "start" THEN currentInsights'
                        ELSE firstInsights
    /\ pcInsights' = IF pcInsights = "start" THEN "once" ELSE "twice"
    /\ UNCHANGED insightArgs

----------------------------------------------------------------------------
(* initializeDashboard  (src/script.js)                                    *)
(* The callback of the 1.5 s timer is an async function: it runs up to     *)
(* each await, and continues in a later task.                              *)

\* numCampaigns of generateMockData.
DashNumCampaigns == 2

\* Campaigns as generateCampaign builds them; rates in thousandths.
DashCampaigns ==
    { [name |-> "Weekly Marketing Insights", sendDate |-> 5,
       recipients |-> 1000, openRate |-> 200, ctr |-> 60,
       conversionRate |-> 10],
      [name |-> "Flash Sale Alert!", sendDate |-> 1,
       recipients |-> 9000, openRate |-> 400, ctr |-> 40,
       conversionRate |-> 50] }

\* A/B tests as generateABTest builds them: variant B opens better.
DashTests == { t \in InsightTests : t.variantB.openRate = 300 }

\* What generateMockData(numCampaigns, numABTests) can return.
generateMockData(numCampaigns, numABTests) ==
    [ campaigns : [1..numCampaigns -> DashCampaigns],
      abTests : [1..numABTests -> DashTests],
      monthlyPerformance : MonthlyPool ]

\* The campaigns as renderKeyMetrics reads them.
KeyMetricCampaigns(campaigns) ==
    [ i \in 1..Len(campaigns) |->
        [ recipients     |-> campaigns[i].recipients,
          openRate       |-> Rat(campaigns[i].openRate),
          ctr            |-> Rat(campaigns[i].ctr),
          conversionRate |-> Rat(campaigns[i].conversionRate) ] ]

NoData == [ none |-> TRUE ]

DashboardSections ==
    {"keyMetrics", "campaignsTable", "abTests", "performanceChart", "insights"}

DashboardInit ==
    /\ overlayHidden \in BOOLEAN
    /\ pcDashboard = "loading-page"
    /\ mockData = NoData
    /\ sections = {}
    /\ toast = "none"

DashboardIdle ==
    /\ overlayHidden = TRUE
    /\ pcDashboard = "idle"
    /\ mockData = NoData
    /\ sections = {}
    /\ toast = "none"

\* DOMContentLoaded: initializeDashboard shows the overlay and sets the
\* timer (lines 596-599, 625).
InitializeDashboard ==
    /\ pcDashboard = "loading-page"
    /\ overlayHidden' = FALSE
    /\ pcDashboard' = "timer"
    /\ UNCHANGED <<mockData, sections, toast>>
    /\ UNCHANGED <<varsAgg, varsAB, varsInsights>>

\* The timer fires: the callback calls generateMockData(15, 3) and awaits
\* its promise (line 601).
LoadMockData ==
    /\ pcDashboard = "timer"
    /\ mockData' \in generateMockData(DashNumCampaigns, NumABTests)
    /\ pcDashboard' = "await-data"
    /\ UNCHANGED <<overlayHidden, sections, toast>>
    /\ UNCHANGED <<varsAgg, varsAB, varsInsights>>

\* Lines 601-619: the globals are stored, the four sections rendered and
\* generateInsights called; the callback awaits its promise.
RenderDashboard ==
    /\ pcDashboard = "await-data"
    /\ allCampaigns' = mockData.campaigns
    /\ allABTests' = mockData.abTests
    /\ allMonthlyPerformance' = mockData.monthlyPerformance
    /\ keyMetrics' = renderKeyMetrics(KeyMetricCampaigns(allCampaigns'),
                                      allMonthlyPerformance')
    /\ abCards' = renderABTestResults(allABTests')
    /\ \E now \in Nows, random \in Randoms :
         currentInsights' = generateInsights(allCampaigns', allABTests',
                                             allMonthlyPerformance', now, random)
    /\ sections' = sections \cup {"keyMetrics", "campaignsTable", "abTests",
                                  "performanceChart"}
    /\ pcDashboard' = "await-insights"
    /\ UNCHANGED <<overlayHidden, mockData, toast>>
    /\ UNCHANGED <<splitAt, partialMetrics, combinedMetrics, pcAgg,
                   pValues, pcAB, insightArgs, firstInsights, pcInsights>>

\* Lines 620-623: renderInsights, the overlay is hidden, the toast shown.
FinishDashboardOverlayKept ==
    /\ pcDashboard = "await-insights"
    /\ sections' = sections \cup {"insights"}
    /\ toast' = "shown"
    /\ pcDashboard' = "done"
    /\ UNCHANGED <<overlayHidden, mockData>>
    /\ UNCHANGED <<varsAgg, varsAB, varsInsights>>

FinishDashboard ==
    /\ pcDashboard = "await-insights"
    /\ sections' = sections \cup {"insights"}
    /\ overlayHidden' = TRUE
    /\ toast' = "shown"
    /\ pcDashboard' = "done"
    /\ UNCHANGED mockData
    /\ UNCHANGED <<varsAgg, varsAB, varsInsights>>

\* The timer of showToast (lines 18-21) removes the toast.
ToastExpires ==
    /\ toast = "shown"
    /\ toast' = "removed"
    /\ UNCHANGED <<overlayHidden, pcDashboard, mockData, sections>>
    /\ UNCHANGED <<varsAgg, varsAB, varsInsights>>

----------------------------------------------------------------------------
(* SheetsTracker  (src/sheets_tracker.js, first class)                     *)
(* A log entry { sheet, data } is a number, the rank of the appendToSheet  *)
(* call that created it.  An async method runs up to each await; the       *)
(* response of a fetch is a later step.  A processBatchedData call         *)
(* iterates the array this.batchData referred to when the call started: it *)
(* shares that array with the tracker until some call replaces             *)
(* this.batchData by a new array.                                          *)

\* Number of appendToSheet calls made by the log methods.
MaxEntries == 2

\* Number of append requests that fail.
MaxFailures == 2

\* Number of processBatchedData calls that can be running at a time.
MaxRuns == 2

\* sheetsToCreate.length
NumSheets == 5

Entries == 1..MaxEntries

RunSlots == 1..MaxRuns

\* What the two requests of createSheet can do: the addSheet request is
\* answered ok, answered with an HTTP error or rejected; the addHeaders
\* request follows unless addSheet got an HTTP error, and is caught.
CreateSheetOutcomes ==
    { [addSheet |-> "ok", addHeaders |-> "ok"],
      [addSheet |-> "ok", addHeaders |-> "rejected"],
      [addSheet |-> "http-error", addHeaders |-> "none"],
      [addSheet |-> "rejected", addHeaders |-> "ok"],
      [addSheet |-> "rejected", addHeaders |-> "rejected"] }

\* No request of the outcome succeeded.
OutcomeFailed(o) == o.addSheet # "ok" /\ o.addHeaders # "ok"

\* createSheet and addHeaders catch every error: createSheet never throws.
CreateSheetThrows(o) == FALSE

IdleRun == [ state |-> "idle", shared |-> TRUE, arr |-> << >>, idx |-> 0,
             attempts |-> 0, startLength |-> 0 ]

\* The array the call in slot r iterates.
RunArray(r) == IF runs[r].shared THEN batchData ELSE runs[r].arr

\* The entry whose append request the call in slot r awaits.
RunEntry(r) == RunArray(r)[runs[r].idx]

TrackerInit ==
    /\ initialized = FALSE
    /\ batchData = << >>
    /\ pcInit = "constructed"
    /\ sheetsDone = 0
    /\ allRequestsFailed = TRUE
    /\ autoSync = FALSE
    /\ runs = [r \in RunSlots |-> IdleRun]
    /\ inFlight = {}
    /\ written = [e \in Entries |-> 0]
    /\ logged = 0
    /\ failures = 0

TrackerIdle ==
    /\ initialized = FALSE
    /\ batchData = << >>
    /\ pcInit = "idle"
    /\ sheetsDone = 0
    /\ allRequestsFailed = TRUE
    /\ autoSync = FALSE
    /\ runs = << >>
    /\ inFlight = {}
    /\ written = << >>
    /\ logged = 0
    /\ failures = 0

\* DOMContentLoaded: initialize() starts createSheetsIfNotExists.
Initialize ==
    /\ pcInit = "constructed"
    /\ pcInit' = "creating"
    /\ UNCHANGED <<initialized, batchData, sheetsDone, allRequestsFailed,
                   autoSync, runs, inFlight, written, logged, failures>>

\* One iteration of the loop of createSheetsIfNotExists: createSheet with
\* its requests answered.
CreateSheet ==
    /\ pcInit = "creating"
    /\ sheetsDone < NumSheets
    /\ \E o \in CreateSheetOutcomes :
         /\ ~CreateSheetThrows(o)
         /\ allRequestsFailed' = (allRequestsFailed /\ OutcomeFailed(o))
    /\ sheetsDone' = sheetsDone + 1
    /\ UNCHANGED <<initialized, batchData, pcInit, autoSync, runs, inFlight,
                   written, logged, failures>>

\* createSheetsIfNotExists has returned: initialize sets initialized and
\* resolves, and the handler starts the auto-sync.
FinishInitialize ==
    /\ pcInit = "creating"
    /\ sheetsDone = NumSheets
    /\ initialized' = TRUE
    /\ autoSync' = TRUE
    /\ pcInit' = "ready"
    /\ UNCHANGED <<batchData, sheetsDone, allRequestsFailed, runs, inFlight,
                   written, logged, failures>>

\* appendToSheet(sheetName, data) called by a log method, up to its
\* return or its fetch.
AppendToSheet ==
    /\ pcInit # "idle"
    /\ logged < MaxEntries
    /\ logged' = logged + 1
    /\ IF ~initialized
       THEN /\ batchData' = Append(batchData, logged + 1)
            /\ UNCHANGED inFlight
       ELSE /\ inFlight' = inFlight \cup {logged + 1}
            /\ UNCHANGED batchData
    /\ UNCHANGED <<initialized, pcInit, sheetsDone, allRequestsFailed,
                   autoSync, runs, written, failures>>

\* The append request of a log call is answered: ok, or an error that
\* stores the entry in this.batchData.
AppendAnswered ==
    \E e \in inFlight, ok \in BOOLEAN :
        /\ inFlight' = inFlight \ {e}
        /\ IF ok
           THEN /\ written' = [written EXCEPT ![e] = @ + 1]
                /\ UNCHANGED <<batchData, failures>>
           ELSE /\ failures < MaxFailures
                /\ failures' = failures + 1
                /\ batchData' = Append(batchData, e)
                /\ UNCHANGED written
        /\ UNCHANGED <<initialized, pcInit, sheetsDone, allRequestsFailed,
                       autoSync, runs, logged>>

\* The interval timer calls processBatchedData: the call returns at once,
\* or starts to iterate this.batchData and awaits the first append.
ProcessBatchedData ==
    \E r \in RunSlots :
        /\ autoSync
        /\ runs[r].state # "awaiting"
        /\ initialized /\ Len(batchData) # 0
        /\ runs' = [runs EXCEPT ![r] =
                      [ state |-> "awaiting", shared |-> TRUE, arr |-> << >>,
                        idx |-> 1, attempts |-> 1,
                        startLength |-> Len(batchData) ]]
        /\ UNCHANGED <<initialized, batchData, pcInit, sheetsDone,
                       allRequestsFailed, autoSync, inFlight, written, logged,
                       failures>>

\* The append request a processBatchedData call awaits is answered; the
\* loop goes on to the next element of its array, or ends and the call
\* replaces this.batchData by an empty array.
SyncAnswered ==
    \E r \in RunSlots, ok \in BOOLEAN :
        /\ runs[r].state = "awaiting"
        /\ ok \/ failures < MaxFailures
        /\ LET e == RunEntry(r)
               pushed == IF ok THEN batchData ELSE Append(batchData, e)
               array == IF runs[r].shared THEN pushed ELSE runs[r].arr
           IN  /\ written' = IF ok THEN [written EXCEPT ![e] = @ + 1]
                             ELSE written
               /\ failures' = IF ok THEN failures ELSE failures + 1
               /\ IF runs[r].idx < Len(array)
                  THEN /\ batchData' = pushed
                       /\ runs' = [runs EXCEPT ![r].idx = @ + 1,
                                               ![r].attempts = @ + 1]
                  ELSE /\ batchData' = << >>
                       /\ runs' =
                            [ q \in RunSlots |->
                                IF q = r
                                THEN [runs[r] EXCEPT !.state = "done"]
                                ELSE IF runs[q].state = "awaiting"
                                        /\ runs[q].shared
                                THEN [runs[q] EXCEPT !.shared = FALSE,
                                                     !.arr = pushed]
                                ELSE runs[q] ]
        /\ UNCHANGED <<initialized, pcInit, sheetsDone, allRequestsFailed,
                       autoSync, inFlight, logged>>

----------------------------------------------------------------------------
(* SheetsTracker.logEngagementEvent and updateCampaignData                 *)
(* (src/sheets_tracker.js, second class), several calls at a time.  Every  *)
(* await of a request to the sheets service ends a step; the response is   *)
(* a later step, and the responses of different calls come in any order.   *)

\* Number of calls made.
MaxCalls == 2

CallIds == 1..MaxCalls

\* Event types the switch of updateCampaignTotals counts.
EngagementEvents == {"open", "click", "unsubscribe"}

\* Lines 683-687: fieldMapping, field name to column index.
FieldMapping ==
    [ emailsSent |-> 5, delivered |-> 6, opens |-> 7, uniqueOpens |-> 8,
      clicks |-> 9, uniqueClicks |-> 10, unsubscribes |-> 11,
      openRate |-> 12, clickRate |-> 13, deliveryRate |-> 14, status |-> 15 ]

\* Property names every object literal inherits from Object.prototype.
ObjectPrototype == {"constructor", "toString", "valueOf", "hasOwnProperty"}

\* fieldMapping[field]: the own property, an inherited function, or
\* undefined.
FieldMappingAt(field) ==
    IF field \in DOMAIN FieldMapping THEN Num(FieldMapping[field])
    ELSE IF field \in ObjectPrototype THEN <<"function", field>>
    ELSE Undefined

\* Line 690: the fields of updatedData an updateRange request is made for.
FieldsToUpdate(updatedData) ==
    { f \in DOMAIN updatedData : FieldMappingAt(f) # Undefined }

\* The row of the campaign when the calls start.
EngageRow ==
    [ emailsSent |-> Num(4), opens |-> Num(1), clicks |-> Num(0),
      unsubscribes |-> Undefined, openRate |-> Num(2500),
      clickRate |-> Num(0), status |-> <<"string", "sent">> ]

\* updatedData of a direct updateCampaignData call: mapped fields, a field
\* the mapping does not list and a field name Object.prototype defines.
UpdatedDatas ==
    { [ opens |-> Num(3) ],
      [ opens |-> Num(3), status |-> <<"string", "archived">> ],
      [ opens |-> Num(3), revenue |-> Num(9) ],
      [ revenue |-> Num(9) ],
      [ opens |-> Num(3), toString |-> Num(9) ],
      NoUpdates }

IdleCall(kind, event, updatedData) ==
    [ kind |-> kind, event |-> event, pc |-> "idle", updates |-> updatedData,
      pending |-> {}, result |-> "none", updateResult |-> "none" ]

EngageInit ==
    /\ sheetRow \in {EngageRow, NoCampaign}
    /\ calls \in { [c \in CallIds |-> IdleCall("engagement", ev[c], NoUpdates)] :
                     ev \in [CallIds -> EngagementEvents] }
    /\ rangesRequested = {}
    /\ requestFailed = FALSE

\* One direct updateCampaignData(campaignId, updatedData) call.
UpdateInit ==
    /\ sheetRow \in {EngageRow, NoCampaign}
    /\ calls \in { [c \in CallIds |->
                      IF c = 1 THEN IdleCall("update", "none", d)
                      ELSE [IdleCall("update", "none", NoUpdates)
                              EXCEPT !.pc = "unused"]] :
                     d \in UpdatedDatas }
    /\ rangesRequested = {}
    /\ requestFailed = FALSE

EngageIdle ==
    /\ sheetRow = NoCampaign
    /\ calls = << >>
    /\ rangesRequested = {}
    /\ requestFailed = FALSE

\* Lines 713-726: logEngagementEvent builds the row and awaits appendRow.
LogEngagementEvent ==
    \E c \in DOMAIN calls :
        /\ calls[c].kind = "engagement"
        /\ calls[c].pc = "idle"
        /\ calls' = [calls EXCEPT ![c].pc = "appendRow"]
        /\ UNCHANGED <<sheetRow, rangesRequested, requestFailed>>

\* Lines 726-738: appendRow is answered; on success updateCampaignTotals is
\* called and awaits getCampaignData (746), otherwise the call returns.
AppendRowAnswered ==
    \E c \in DOMAIN calls, ok \in BOOLEAN :
        /\ calls[c].pc = "appendRow"
        /\ calls' = [calls EXCEPT
                       ![c].pc = IF ok THEN "getCampaignData" ELSE "done",
                       ![c].result = IF ok THEN "success" ELSE "failure"]
        /\ requestFailed' = (requestFailed \/ ~ok)
        /\ UNCHANGED <<sheetRow, rangesRequested>>

\* Lines 746-771: getCampaignData is answered with the stored row; the
\* updates object is built from it and updateCampaignData is called, which
\* awaits authenticate (671).  No row, or a rejected request, ends the call.
GetCampaignDataAnswered ==
    \E c \in DOMAIN calls, ok \in BOOLEAN :
        /\ calls[c].pc = "getCampaignData"
        /\ IF ok /\ sheetRow # NoCampaign
           THEN calls' = [calls EXCEPT
                            ![c].updates = UpdatesFor(sheetRow, calls[c].event),
                            ![c].pc = "authenticate"]
           ELSE calls' = [calls EXCEPT ![c].pc = "done"]
        /\ requestFailed' = (requestFailed \/ ~ok)
        /\ UNCHANGED <<sheetRow, rangesRequested>>

\* Lines 669-671: updateCampaignData called by the application.
UpdateCampaignData ==
    \E c \in DOMAIN calls :
        /\ calls[c].kind = "update"
        /\ calls[c].pc = "idle"
        /\ calls' = [calls EXCEPT ![c].pc = "authenticate"]
        /\ UNCHANGED <<sheetRow, rangesRequested, requestFailed>>

\* Lines 671-674: authenticate returns (it catches its errors, 495-524, and
\* its result is not looked at); getSheetData is awaited.
AuthenticateAnswered ==
    \E c \in DOMAIN calls, ok \in BOOLEAN :
        /\ calls[c].pc = "authenticate"
        /\ calls' = [calls EXCEPT ![c].pc = "getSheetData"]
        /\ requestFailed' = (requestFailed \/ ~ok)
        /\ UNCHANGED <<sheetRow, rangesRequested>>

\* Lines 674-696: getSheetData is answered; the campaign is looked up, an
\* updateRange request is made for each mapped field and Promise.all is
\* awaited.  A rejected request or an unknown campaign is caught (704-707).
GetSheetDataAnswered ==
    \E c \in DOMAIN calls, ok \in BOOLEAN :
        /\ calls[c].pc = "getSheetData"
        /\ requestFailed' = (requestFailed \/ ~ok)
        /\ IF ok /\ sheetRow # NoCampaign
           THEN LET fields == FieldsToUpdate(calls[c].updates)
                IN  /\ calls' = [calls EXCEPT
                                   ![c].pending = fields,
                                   ![c].pc = IF fields = {}
                                             THEN "updateSummaryStats"
                                             ELSE "updateRange"]
                    /\ rangesRequested' = rangesRequested \cup fields
           ELSE /\ calls' = [calls EXCEPT ![c].pc = "done",
                                          ![c].updateResult = "failure"]
                /\ UNCHANGED rangesRequested
        /\ UNCHANGED sheetRow

\* Lines 693-696: one updateRange request is answered.  A successful one
\* has written its cell; a rejected one rejects Promise.all at once, while
\* the other requests of the call stay pending.  When the last one has
\* succeeded, updateSummaryStats is awaited (700).
UpdateRangeAnswered ==
    \E c \in DOMAIN calls, ok \in BOOLEAN :
        \E f \in calls[c].pending :
            LET left == calls[c].pending \ {f}
                waiting == calls[c].pc = "updateRange"
            IN  /\ sheetRow' = IF ok /\ f \in DOMAIN FieldMapping
                                     /\ f \in DOMAIN sheetRow
                               THEN [sheetRow EXCEPT ![f] = calls[c].updates[f]]
                               ELSE sheetRow
                /\ requestFailed' = (requestFailed \/ ~ok)
                /\ calls' = [calls EXCEPT
                       ![c].pending = left,
                       ![c].pc = IF ~waiting THEN @
                                 ELSE IF ~ok THEN "done"
                                 ELSE IF left = {} THEN "updateSummaryStats"
                                 ELSE @,
                       ![c].updateResult = IF waiting /\ ~ok THEN "failure"
                                           ELSE @]
                /\ UNCHANGED rangesRequested

\* Lines 700-707: updateSummaryStats is answered and updateCampaignData
\* returns { success: true }, or { success: false, error } when it threw.
UpdateSummaryStatsAnswered ==
    \E c \in DOMAIN calls, ok \in BOOLEAN :
        /\ calls[c].pc = "updateSummaryStats"
        /\ calls' = [calls EXCEPT
                       ![c].pc = "done",
                       ![c].updateResult = IF ok THEN "success" ELSE "failure"]
        /\ requestFailed' = (requestFailed \/ ~ok)
        /\ UNCHANGED <<sheetRow, rangesRequested>>

----------------------------------------------------------------------------
(* MailchimpIntegration.getCampaignStats  (src/mailchimp_integration.js)   *)
(* The report summary of the response is the input; of the stats object    *)
(* the fields computed from emails_sent and the bounces are modelled.      *)

\* a || b
JsOr(a, b) == IF Truthy(a) THEN a ELSE b

\* a + b and a - b on numbers; undefined makes the result NaN.
JsAdd(a, b) == IF IsNum(a) /\ IsNum(b) THEN Num(a[2] + b[2]) ELSE NaN

JsSub(a, b) == IF IsNum(a) /\ IsNum(b) THEN Num(a[2] - b[2]) ELSE NaN

\* A count of the report, or a property the response does not have.
ReportCounts == {Undefined} \cup {Num(n) : n \in 0..MaxCount}

\* data.report_summary || {}: emails_sent and bounces?.hard_bounces,
\* bounces?.soft_bounces, undefined where the response has no such property.
ReportSummaries ==
    [ emails_sent : ReportCounts, hard_bounces : ReportCounts,
      soft_bounces : ReportCounts ]

\* Lines 272-284: the stats object.  In the expression of bounces, + binds
\* tighter than ||: hard_bounces || (0 + soft_bounces) || 0.
getCampaignStats(stats) ==
    [ success    |-> TRUE,
      emailsSent |-> JsOr(stats.emails_sent, Num(0)),
      delivered  |-> JsSub(JsSub(stats.emails_sent,
                                 JsOr(stats.hard_bounces, Num(0))),
                           JsOr(stats.soft_bounces, Num(0))),
      bounces    |-> JsOr(JsOr(stats.hard_bounces,
                               JsAdd(Num(0), stats.soft_bounces)),
                          Num(0)) ]

NoCampaignStats == [ success |-> FALSE ]

StatsInit ==
    /\ reportSummary \in ReportSummaries
    /\ campaignStats = NoCampaignStats
    /\ pcStats = "start"

StatsIdle ==
    /\ reportSummary = << >>
    /\ campaignStats = NoCampaignStats
    /\ pcStats = "idle"

\* Lines 245-290: getCampaignStats(campaignId); a failed request or a
\* response that is not ok returns { success: false, error }.
GetCampaignStats ==
    /\ pcStats = "start"
    /\ pcStats' = "done"
    /\ \E ok \in BOOLEAN :
         campaignStats' = IF ok THEN getCampaignStats(reportSummary)
                          ELSE NoCampaignStats
    /\ UNCHANGED reportSummary

----------------------------------------------------------------------------
(* MailchimpUtils: calculateImprovement and formatCampaignData called on   *)
(* the objects of one program, in either order.                            *)

\* stats objects of campaigns that differ in what was sent and delivered.
UtilsStats ==
    { st \in StatsObjects :
        /\ st.opens = Num(2) /\ st.uniqueOpens = Num(1)
        /\ st.clicks = Num(1) /\ st.uniqueClicks = Num(1)
        /\ st.bounces = Num(0) /\ st.openRate = st.clickRate }

UtilsInit ==
    /\ baseline \in { [m \in Metrics |-> v] : v \in RawVals }
    /\ optimized \in { [m \in Metrics |-> v] : v \in RawVals }
    /\ improvements = NoImprovements
    /\ pcImprove = "start"
    /\ rawData \in
         [ hasInfo : {TRUE}, campaignInfo : CampaignInfos,
           hasStats : {TRUE}, stats : UtilsStats ]
         \cup [ hasInfo : {TRUE}, campaignInfo : CampaignInfos,
                hasStats : {FALSE}, stats : {NoStats} ]
    /\ formatted = NoFormatted
    /\ pcFormat = "start"

----------------------------------------------------------------------------
(* Specifications                                                          *)

InitImprove ==
    /\ ImproveInit
    /\ ABIdle
    /\ SigIdle
    /\ AggIdle
    /\ FormatIdle
    /\ TotalsIdle
    /\ InsightsIdle
    /\ DashboardIdle
    /\ TrackerIdle
    /\ EngageIdle
    /\ StatsIdle

NextImprove ==
    CalculateImprovement
        /\ UNCHANGED <<varsAB, varsSig, varsAgg, varsFormat, varsTotals,
                       varsInsights, varsDashboard, varsTracker, varsEngage, varsStats>>

SpecImprove == InitImprove /\ [][NextImprove]_vars

InitSig ==
    /\ SigInit
    /\ ImproveIdle
    /\ ABIdle
    /\ AggIdle
    /\ FormatIdle
    /\ TotalsIdle
    /\ InsightsIdle
    /\ DashboardIdle
    /\ TrackerIdle
    /\ EngageIdle
    /\ StatsIdle

NextSig ==
    RunSignificanceTest
        /\ UNCHANGED <<varsImprove, varsAB, varsAgg, varsFormat, varsTotals,
                       varsInsights, varsDashboard, varsTracker, varsEngage, varsStats>>

SpecSig == InitSig /\ [][NextSig]_vars

InitAB ==
    /\ ABInit
    /\ ImproveIdle
    /\ SigIdle
    /\ AggIdle
    /\ FormatIdle
    /\ TotalsIdle
    /\ InsightsIdle
    /\ DashboardIdle
    /\ TrackerIdle
    /\ EngageIdle
    /\ StatsIdle

NextAB ==
    RenderABTestResults
        /\ UNCHANGED <<varsImprove, varsSig, varsAgg, varsFormat, varsTotals,
                       varsInsights, varsDashboard, varsTracker, varsEngage, varsStats>>

SpecAB == InitAB /\ [][NextAB]_vars

InitAgg ==
    /\ AggInit
    /\ ImproveIdle
    /\ ABIdle
    /\ SigIdle
    /\ FormatIdle
    /\ TotalsIdle
    /\ InsightsIdle
    /\ DashboardIdle
    /\ TrackerIdle
    /\ EngageIdle
    /\ StatsIdle

NextAgg ==
    \/ RenderKeyMetrics
           /\ UNCHANGED <<varsImprove, varsAB, varsSig, varsFormat,
                          varsTotals, varsInsights, varsDashboard, varsTracker,
                          varsEngage, varsStats>>
    \/ RenderFirstGroup
           /\ UNCHANGED <<varsImprove, varsAB, varsSig, varsFormat,
                          varsTotals, varsInsights, varsDashboard, varsTracker,
                          varsEngage, varsStats>>
    \/ RenderCombined
           /\ UNCHANGED <<varsImprove, varsAB, varsSig, varsFormat,
                          varsTotals, varsInsights, varsDashboard, varsTracker,
                          varsEngage, varsStats>>

SpecAgg == InitAgg /\ [][NextAgg]_vars

InitFormat ==
    /\ FormatInit
    /\ ImproveIdle
    /\ ABIdle
    /\ SigIdle
    /\ AggIdle
    /\ TotalsIdle
    /\ InsightsIdle
    /\ DashboardIdle
    /\ TrackerIdle
    /\ EngageIdle
    /\ StatsIdle

NextFormat ==
    FormatCampaignData
        /\ UNCHANGED <<varsImprove, varsAB, varsSig, varsAgg, varsTotals,
                       varsInsights, varsDashboard, varsTracker, varsEngage, varsStats>>

SpecFormat == InitFormat /\ [][NextFormat]_vars

InitTotals ==
    /\ TotalsInit
    /\ ImproveIdle
    /\ ABIdle
    /\ SigIdle
    /\ AggIdle
    /\ FormatIdle
    /\ InsightsIdle
    /\ DashboardIdle
    /\ TrackerIdle
    /\ EngageIdle
    /\ StatsIdle

NextTotals ==
    UpdateCampaignTotals
        /\ UNCHANGED <<varsImprove, varsAB, varsSig, varsAgg, varsFormat,
                       varsInsights, varsDashboard, varsTracker, varsEngage, varsStats>>

SpecTotals == InitTotals /\ [][NextTotals]_vars

InitInsights ==
    /\ InsightsInit
    /\ ImproveIdle
    /\ ABIdle
    /\ SigIdle
    /\ AggIdle
    /\ FormatIdle
    /\ TotalsIdle
    /\ DashboardIdle
    /\ TrackerIdle
    /\ EngageIdle
    /\ StatsIdle

NextInsights ==
    GenerateInsights
        /\ UNCHANGED <<varsImprove, varsAB, varsSig, varsAgg, varsFormat,
                       varsTotals, varsDashboard, varsTracker, varsEngage, varsStats>>

SpecInsights == InitInsights /\ [][NextInsights]_vars

InitDashboard ==
    /\ DashboardInit
    /\ ImproveIdle
    /\ ABIdle
    /\ SigIdle
    /\ AggIdle
    /\ FormatIdle
    /\ TotalsIdle
    /\ InsightsIdle
    /\ TrackerIdle
    /\ EngageIdle
    /\ StatsIdle

NextDashboard ==
    \/ InitializeDashboard
           /\ UNCHANGED <<varsImprove, varsSig, varsFormat, varsTotals,
                          varsTracker, varsEngage, varsStats>>
    \/ LoadMockData
           /\ UNCHANGED <<varsImprove, varsSig, varsFormat, varsTotals,
                          varsTracker, varsEngage, varsStats>>
    \/ RenderDashboard
           /\ UNCHANGED <<varsImprove, varsSig, varsFormat, varsTotals,
                          varsTracker, varsEngage, varsStats>>
    \/ FinishDashboard
           /\ UNCHANGED <<varsImprove, varsSig, varsFormat, varsTotals,
                          varsTracker, varsEngage, varsStats>>
    \/ ToastExpires
           /\ UNCHANGED <<varsImprove, varsSig, varsFormat, varsTotals,
                          varsTracker, varsEngage, varsStats>>

SpecDashboard == InitDashboard /\ [][NextDashboard]_vars

\* The page fires DOMContentLoaded, timers fire and awaited promises are
\* resumed: every enabled step of the run is eventually taken.
FairSpecDashboard == SpecDashboard /\ WF_vars(NextDashboard)

InitTracker ==
    /\ TrackerInit
    /\ ImproveIdle
    /\ ABIdle
    /\ SigIdle
    /\ AggIdle
    /\ FormatIdle
    /\ TotalsIdle
    /\ InsightsIdle
    /\ DashboardIdle
    /\ EngageIdle
    /\ StatsIdle

NextTracker ==
    \/ Initialize
           /\ UNCHANGED <<varsImprove, varsAB, varsSig, varsAgg, varsFormat,
                          varsTotals, varsInsights, varsDashboard, varsEngage, varsStats>>
    \/ CreateSheet
           /\ UNCHANGED <<varsImprove, varsAB, varsSig, varsAgg, varsFormat,
                          varsTotals, varsInsights, varsDashboard, varsEngage, varsStats>>
    \/ FinishInitialize
           /\ UNCHANGED <<varsImprove, varsAB, varsSig, varsAgg, varsFormat,
                          varsTotals, varsInsights, varsDashboard, varsEngage, varsStats>>
    \/ AppendToSheet
           /\ UNCHANGED <<varsImprove, varsAB, varsSig, varsAgg, varsFormat,
                          varsTotals, varsInsights, varsDashboard, varsEngage, varsStats>>
    \/ AppendAnswered
           /\ UNCHANGED <<varsImprove, varsAB, varsSig, varsAgg, varsFormat,
                          varsTotals, varsInsights, varsDashboard, varsEngage, varsStats>>
    \/ ProcessBatchedData
           /\ UNCHANGED <<varsImprove, varsAB, varsSig, varsAgg, varsFormat,
                          varsTotals, varsInsights, varsDashboard, varsEngage, varsStats>>
    \/ SyncAnswered
           /\ UNCHANGED <<varsImprove, varsAB, varsSig, varsAgg, varsFormat,
                          varsTotals, varsInsights, varsDashboard, varsEngage, varsStats>>

SpecTracker == InitTracker /\ [][NextTracker]_vars

\* initialize() is called and goes on, every append request is answered and
\* the interval timer keeps calling processBatchedData; nothing makes the
\* log methods be called.
FairSpecTracker ==
    /\ SpecTracker
    /\ WF_varsTracker(Initialize) /\ WF_varsTracker(CreateSheet)
    /\ WF_varsTracker(FinishInitialize)
    /\ WF_varsTracker(AppendAnswered)
    /\ WF_varsTracker(SyncAnswered)
    /\ WF_varsTracker(ProcessBatchedData)

InitEngage ==
    /\ EngageInit
    /\ ImproveIdle
    /\ ABIdle
    /\ SigIdle
    /\ AggIdle
    /\ FormatIdle
    /\ TotalsIdle
    /\ InsightsIdle
    /\ DashboardIdle
    /\ TrackerIdle
    /\ StatsIdle

NextEngage ==
    \/ LogEngagementEvent
           /\ UNCHANGED <<varsImprove, varsAB, varsSig, varsAgg, varsFormat,
                          varsTotals, varsInsights, varsDashboard, varsTracker,
                          varsStats>>
    \/ AppendRowAnswered
           /\ UNCHANGED <<varsImprove, varsAB, varsSig, varsAgg, varsFormat,
                          varsTotals, varsInsights, varsDashboard, varsTracker,
                          varsStats>>
    \/ GetCampaignDataAnswered
           /\ UNCHANGED <<varsImprove, varsAB, varsSig, varsAgg, varsFormat,
                          varsTotals, varsInsights, varsDashboard, varsTracker,
                          varsStats>>
    \/ AuthenticateAnswered
           /\ UNCHANGED <<varsImprove, varsAB, varsSig, varsAgg, varsFormat,
                          varsTotals, varsInsights, varsDashboard, varsTracker,
                          varsStats>>
    \/ GetSheetDataAnswered
           /\ UNCHANGED <<varsImprove, varsAB, varsSig, varsAgg, varsFormat,
                          varsTotals, varsInsights, varsDashboard, varsTracker,
                          varsStats>>
    \/ UpdateRangeAnswered
           /\ UNCHANGED <<varsImprove, varsAB, varsSig, varsAgg, varsFormat,
                          varsTotals, varsInsights, varsDashboard, varsTracker,
                          varsStats>>
    \/ UpdateSummaryStatsAnswered
           /\ UNCHANGED <<varsImprove, varsAB, varsSig, varsAgg, varsFormat,
                          varsTotals, varsInsights, varsDashboard, varsTracker,
                          varsStats>>

SpecEngage == InitEngage /\ [][NextEngage]_vars

InitStats ==
    /\ StatsInit
    /\ ImproveIdle
    /\ ABIdle
    /\ SigIdle
    /\ AggIdle
    /\ FormatIdle
    /\ TotalsIdle
    /\ InsightsIdle
    /\ DashboardIdle
    /\ TrackerIdle
    /\ EngageIdle

NextStats ==
    GetCampaignStats
        /\ UNCHANGED <<varsImprove, varsAB, varsSig, varsAgg, varsFormat,
                       varsTotals, varsInsights, varsDashboard, varsTracker, varsEngage>>

SpecStats == InitStats /\ [][NextStats]_vars

InitUtils ==
    /\ UtilsInit
    /\ ABIdle
    /\ SigIdle
    /\ AggIdle
    /\ TotalsIdle
    /\ InsightsIdle
    /\ DashboardIdle
    /\ TrackerIdle
    /\ EngageIdle
    /\ StatsIdle

NextUtils ==
    \/ CalculateImprovement
           /\ UNCHANGED <<varsAB, varsSig, varsAgg, varsFormat, varsTotals,
                          varsInsights, varsDashboard, varsTracker, varsEngage,
                          varsStats>>
    \/ FormatCampaignData
           /\ UNCHANGED <<varsImprove, varsAB, varsSig, varsAgg, varsTotals,
                          varsInsights, varsDashboard, varsTracker, varsEngage,
                          varsStats>>

SpecUtils == InitUtils /\ [][NextUtils]_vars

InitUpdate ==
    /\ UpdateInit
    /\ ImproveIdle
    /\ ABIdle
    /\ SigIdle
    /\ AggIdle
    /\ FormatIdle
    /\ TotalsIdle
    /\ InsightsIdle
    /\ DashboardIdle
    /\ TrackerIdle
    /\ StatsIdle

NextUpdate ==
    \/ UpdateCampaignData
           /\ UNCHANGED <<varsImprove, varsAB, varsSig, varsAgg, varsFormat,
                          varsTotals, varsInsights, varsDashboard, varsTracker,
                          varsStats>>
    \/ AuthenticateAnswered
           /\ UNCHANGED <<varsImprove, varsAB, varsSig, varsAgg, varsFormat,
                          varsTotals, varsInsights, varsDashboard, varsTracker,
                          varsStats>>
    \/ GetSheetDataAnswered
           /\ UNCHANGED <<varsImprove, varsAB, varsSig, varsAgg, varsFormat,
                          varsTotals, varsInsights, varsDashboard, varsTracker,
                          varsStats>>
    \/ UpdateRangeAnswered
           /\ UNCHANGED <<varsImprove, varsAB, varsSig, varsAgg, varsFormat,
                          varsTotals, varsInsights, varsDashboard, varsTracker,
                          varsStats>>
    \/ UpdateSummaryStatsAnswered
           /\ UNCHANGED <<varsImprove, varsAB, varsSig, varsAgg, varsFormat,
                          varsTotals, varsInsights, varsDashboard, varsTracker,
                          varsStats>>

SpecUpdate == InitUpdate /\ [][NextUpdate]_vars

----------------------------------------------------------------------------
(* Claims about the significance test                                      *)

\* C6: for every p-value in [0,1] the test produces, significant is true
\* exactly when pValue < 0.05, confidencePercent = (1 - pValue) * 100 lies
\* in [0,100], and significant holds exactly when confidencePercent > 95.
C6_SignificantIffBelowAlpha ==
    IsResult(testResult) =>
        /\ testResult.p_value \in 0..PScale
        /\ testResult.significant <=> (testResult.p_value * 100 < 5 * PScale)
        /\ testResult.confidence * PScale
               = (PScale - testResult.p_value) * 100 * 100
        /\ testResult.confidence \in 0..(100 * 100)
        /\ testResult.significant <=> (testResult.confidence > 95 * 100)

\* The test returned a result for the largest p-value below 0.05 of the
\* grid (0.0499) and reported it significant.
C6_Witness ==
    /\ IsResult(testResult)
    /\ testResult.p_value = 499
    /\ testResult.significant

\* The input of the significance test breaks the validation rule.
InvalidSample ==
    \/ variantA.sampleSize <= 0
    \/ variantB.sampleSize <= 0
    \/ variantA.occurred > variantA.sampleSize
    \/ variantB.occurred > variantB.sampleSize

\* C7: the significance test rejects its input with an
\* InsufficientDataError whenever a sampleSize is <= 0 or an occurred
\* count exceeds its sampleSize; no p-value, winner or confidence is
\* produced in that case.
C7_InvalidSampleRejected ==
    (testResult # NoResult /\ InvalidSample) =>
        /\ IsError(testResult)
        /\ testResult.error = "InsufficientDataError"
        /\ DOMAIN testResult
             \cap {"p_value", "significant", "confidence", "winner"} = {}

\* The test was run on positive sample sizes with more occurrences than
\* recipients in variant A, and answered with the error.
C7_Witness ==
    /\ IsError(testResult)
    /\ variantA.sampleSize > 0
    /\ variantB.sampleSize > 0
    /\ variantA.occurred > variantA.sampleSize

----------------------------------------------------------------------------
(* Claims about the A/B comparison of the dashboard                        *)

\* C3: a variant is named winner only when the test is statistically
\* significant; whenever the result is not significant the reported winner
\* is "inconclusive".
C3_WinnerOnlyWhenSignificant ==
    pcAB = "rendered" =>
        \A i \in 1..Len(allABTests) :
            ~run_ab_test(pValues[i]).significant =>
                abCards[i].winner = "inconclusive"

\* C4: when the two variants have exactly equal rates for the compared
\* metric the winner is "inconclusive": neither variant is named winner.
C4_EqualRatesInconclusive ==
    pcAB = "rendered" =>
        \A i \in 1..Len(allABTests) :
            allABTests[i].variantA.openRate = allABTests[i].variantB.openRate =>
                /\ abCards[i].winner = "inconclusive"
                /\ abCards[i].winner # allABTests[i].variantA.label
                /\ abCards[i].winner # allABTests[i].variantB.label

\* The same comparison with the arguments exchanged.
Swapped(t) == [t EXCEPT !.variantA = t.variantB, !.variantB = t.variantA]

\* C5: the winner does not depend on argument order: comparing (X, Y) and
\* comparing (Y, X) name the same variant, the one with the higher rate,
\* also when the rates are equal.
C5_WinnerOrderIndependent ==
    pcAB = "rendered" =>
        \A i, j \in 1..Len(allABTests) :
            allABTests[j] = Swapped(allABTests[i]) =>
                /\ abCards[i].winner = abCards[j].winner
                /\ allABTests[i].variantA.openRate > allABTests[i].variantB.openRate
                       => abCards[i].winner = allABTests[i].variantA.label
                /\ allABTests[i].variantB.openRate > allABTests[i].variantA.openRate
                       => abCards[i].winner = allABTests[i].variantB.label

----------------------------------------------------------------------------
(* Claims about the aggregation                                            *)

\* C8: the overall rate reported for a collection of campaign records is
\* computed on the summed counts of the collection (sum-then-derive), so
\* that campaigns are weighted by their recipient counts; it is not the
\* arithmetic mean of the per-record rates.
C8_RatesFromSummedCounts ==
    pcAgg = "rendered" =>
        /\ keyMetrics.avgOpenRateText
               = PercentText(WeightedAverage(allCampaigns, "openRate"))
        /\ keyMetrics.avgCtrText
               = PercentText(WeightedAverage(allCampaigns, "ctr"))

\* C9: aggregation is associative: aggregating a first group of records and
\* then combining the result with the other records yields the same
\* overall rates as aggregating all records in one step.
C9_AggregationAssociative ==
    (pcAgg = "rendered" /\ combinedMetrics # NoMetrics) =>
        /\ combinedMetrics.avgOpenRateText = keyMetrics.avgOpenRateText
        /\ combinedMetrics.avgCtrText = keyMetrics.avgCtrText
        /\ combinedMetrics.avgConversionRateText
               = keyMetrics.avgConversionRateText

----------------------------------------------------------------------------
(* Claims about the derived rates                                          *)

\* The data-model invariants of CampaignCounts on rawData.stats.
ValidCounts ==
    /\ rawData.hasStats
    /\ \A p \in {"emailsSent", "delivered", "opens", "uniqueOpens", "clicks",
                 "uniqueClicks", "unsubscribes", "bounces"} :
           rawData.stats[p][2] >= 0
    /\ rawData.stats.delivered[2] <= rawData.stats.emailsSent[2]
    /\ rawData.stats.uniqueOpens[2] <= rawData.stats.opens[2]
    /\ rawData.stats.uniqueClicks[2] <= rawData.stats.clicks[2]
    /\ rawData.stats.uniqueClicks[2] <= rawData.stats.opens[2]

\* A formatted rate r (a number with two decimals, held in hundredths) lies
\* between lo and hi hundredths.
RateWithin(r, lo, hi) == IsNum(r) /\ lo <= r[2] /\ r[2] <= hi

\* C10: for every CampaignCounts that satisfies the data-model
\* invariants each derived rate is a fraction in [0,1], not a value
\* pre-multiplied by 100.
C10_RatesAreFractions ==
    (pcFormat = "done" /\ ValidCounts) =>
        /\ RateWithin(formatted.deliveryRate, 0, 100)
        /\ RateWithin(formatted.openRate, 0, 100)
        /\ RateWithin(formatted.clickRate, 0, 100)

----------------------------------------------------------------------------
(* Claims about divisions by zero and validation                           *)

\* The count cells of the row getCampaignData returned are all present and
\* non-negative.
NonNegativeRow ==
    /\ campaignData # NoCampaign
    /\ \A f \in {"emailsSent", "opens", "clicks", "unsubscribes"} :
           IsNum(campaignData[f]) /\ campaignData[f][2] >= 0

RateFields == {"openRate", "clickRate", "deliveryRate"}

\* C11: a derived rate never surfaces a division by zero: for non-negative
\* counts no rate computed or written is NaN or Infinity, and a rate whose
\* denominator is 0 is 0.
C11_NoDivisionByZero ==
    (pcTotals = "done" /\ NonNegativeRow) =>
        /\ \A f \in DOMAIN updates \cap RateFields :
               /\ IsNum(updates[f])
               /\ campaignData.emailsSent = Num(0) => updates[f] = Num(0)
        /\ \A f \in DOMAIN campaignRow \cap RateFields :
               IsNum(campaignRow[f])

\* rawData.stats has a negative count or more delivered than sent emails.
InvalidCounts ==
    /\ rawData.hasStats
    /\ \/ \E p \in {"emailsSent", "delivered", "opens", "uniqueOpens",
                    "clicks", "uniqueClicks", "unsubscribes", "bounces"} :
              rawData.stats[p][2] < 0
       \/ rawData.stats.delivered[2] > rawData.stats.emailsSent[2]

\* C12: KPI derivation validates its counts first: for an input with a
\* negative count or with delivered > sent the result is an
\* InvalidInputError and carries no derived rate.
C12_InvalidCountsRejected ==
    (pcFormat = "done" /\ InvalidCounts) =>
        /\ "error" \in DOMAIN formatted
        /\ DOMAIN formatted \cap RateFields = {}

----------------------------------------------------------------------------
(* Claims about determinism and frames                                     *)

\* C13: analysis is deterministic: two generateInsights calls with the same
\* campaigns, A/B tests and monthly performance return the same insights.
C13_InsightsDeterministic ==
    pcInsights = "twice" => currentInsights = firstInsights

\* The variables that are neither an argument nor the return value of
\* calculateImprovement or formatCampaignData.
varsOutsideUtils ==
    <<varsAB, varsSig, varsAgg, varsTotals, varsInsights, varsDashboard,
      varsTracker, varsEngage>>

\* C14: calculateImprovement and formatCampaignData leave their argument
\* objects unchanged, and a call writes nothing but its own return value.
C14_ArgumentsUnchanged ==
    [][ /\ UNCHANGED <<baseline, optimized, rawData>>
        /\ UNCHANGED varsOutsideUtils
        /\ pcImprove' # pcImprove => UNCHANGED <<formatted, pcFormat>>
        /\ pcFormat' # pcFormat => UNCHANGED <<improvements, pcImprove>> ]_vars

\* Both functions have returned, calculateImprovement with an entry and
\* formatCampaignData on a campaign with stats.
C14_Witness ==
    /\ pcImprove = "done"
    /\ pcFormat = "done"
    /\ DOMAIN improvements = Metrics
    /\ rawData.hasStats
    /\ formatted.deliveryRate = Num(6667)

----------------------------------------------------------------------------
(* Claims about the loading overlay                                        *)

\* initializeDashboard has started and its callback has not finished.
DashboardLoading == pcDashboard \in {"timer", "await-data", "await-insights"}

\* C15: the loading overlay is shown when initializeDashboard starts, stays
\* visible until the mock data is loaded and all sections are rendered, and
\* is eventually hidden on every run.
C15_OverlayShownThenHidden ==
    /\ [](DashboardLoading => ~overlayHidden)
    /\ []((pcDashboard = "done" /\ overlayHidden) =>
              (mockData # NoData /\ sections = DashboardSections))
    /\ (pcDashboard = "timer") ~> (pcDashboard = "done" /\ overlayHidden)

\* The run has finished: every section is rendered from the loaded data
\* and the overlay is hidden again.
C15_Witness ==
    /\ pcDashboard = "done"
    /\ overlayHidden
    /\ sections = DashboardSections
    /\ Len(allCampaigns) = DashNumCampaigns
    /\ Len(abCards) = NumABTests

----------------------------------------------------------------------------
(* Claims about the sheets tracker                                         *)

\* C16: if creating the sheets fails during initialize() (every request
\* fails or is rejected), initialized is false after initialize() returns.
C16_OfflineWhenSheetsFail ==
    (pcInit = "ready" /\ allRequestsFailed) => initialized = FALSE

\* Entry e is an element of this.batchData.
InBatch(e) == \E i \in 1..Len(batchData) : batchData[i] = e

\* The append request of entry e is pending.
Pending(e) ==
    \/ e \in inFlight
    \/ \E r \in RunSlots : runs[r].state = "awaiting" /\ RunEntry(r) = e

\* C17: no log entry is lost: every entry ever passed to appendToSheet has
\* been written to its sheet, is in flight, or is still in batchData.
C17_NoEntryLost ==
    \A e \in 1..logged : written[e] >= 1 \/ Pending(e) \/ InBatch(e)

\* C18: entries queued while the tracker is offline or after a failed
\* append are eventually written to their sheet, and batchData eventually
\* becomes empty.
C18_QueuedEventuallyWritten ==
    /\ \A e \in Entries : InBatch(e) ~> (written[e] >= 1)
    /\ (Len(batchData) # 0) ~> (Len(batchData) = 0)

\* C19: each log entry is written to its sheet at most once.
C19_WrittenAtMostOnce ==
    \A e \in 1..logged : written[e] <= 1

\* C20: a processBatchedData call that starts with N queued entries makes
\* at most N append attempts.
C20_AtMostOneAttemptPerEntry ==
    \A r \in RunSlots : runs[r].attempts <= runs[r].startLength

\* C21: entries of one sheet are written in the order they were logged: once
\* a later entry has been written, no earlier entry is written any more, a
\* retry from batchData included.
C21_WrittenInLogOrder ==
    [][ \A e1, e2 \in 1..logged :
          (e1 < e2 /\ written[e2] >= 1) => written'[e1] = written[e1] ]_vars

----------------------------------------------------------------------------
(* Claims about the campaign sheet                                         *)

\* The column of the campaign row that counts an event type.
CountField(ev) ==
    CASE ev = "open" -> "opens"
      [] ev = "click" -> "clicks"
      [] ev = "unsubscribe" -> "unsubscribes"

\* Every logEngagementEvent call has completed, its requests included,
\* and no request has failed.
AllEventsLogged ==
    /\ sheetRow # NoCampaign
    /\ ~requestFailed
    /\ \A c \in DOMAIN calls :
         /\ calls[c].kind = "engagement"
         /\ calls[c].pc = "done"
         /\ calls[c].pending = {}

\* C22: real-time counting loses no event: once k events of one type have
\* been logged for the campaign and every call has completed, in any
\* interleaving, the stored count of that type has grown by exactly k.
C22_NoEventLost ==
    AllEventsLogged =>
        \A ev \in EngagementEvents :
            OrZero(sheetRow[CountField(ev)])[2] =
                OrZero(EngageRow[CountField(ev)])[2]
                + Cardinality({ c \in DOMAIN calls : calls[c].event = ev })

\* C23: updateCampaignData for a campaign id that is not in the campaign
\* sheet returns { success: false, error } without throwing and writes no
\* cell; for a known campaign only fields listed in the field mapping are
\* written, and fields the mapping does not list are ignored.
C23_UnknownCampaignAndFieldsIgnored ==
    \A c \in DOMAIN calls :
        (calls[c].kind = "update" /\ calls[c].pc # "unused") =>
            /\ calls[c].pc = "done" =>
                   calls[c].updateResult \in {"success", "failure"}
            /\ sheetRow = NoCampaign =>
                   /\ rangesRequested = {}
                   /\ calls[c].pc = "done" => calls[c].updateResult = "failure"
            /\ sheetRow # NoCampaign =>
                   /\ rangesRequested \subseteq DOMAIN FieldMapping
                   /\ \A f \in DOMAIN sheetRow :
                          sheetRow[f] # EngageRow[f] =>
                              /\ f \in DOMAIN FieldMapping
                              /\ f \in DOMAIN calls[c].updates

----------------------------------------------------------------------------
(* Claims about the campaign statistics                                    *)

\* The report gives emails_sent and both bounce counts, as non-negative
\* numbers, and getCampaignStats has returned its statistics.
StatsOfCounts ==
    /\ pcStats = "done"
    /\ campaignStats.success
    /\ IsNum(reportSummary.emails_sent)
    /\ IsNum(reportSummary.hard_bounces)
    /\ IsNum(reportSummary.soft_bounces)

\* C24: in the statistics of getCampaignStats, delivered and bounces account
\* for every sent email: emailsSent = delivered + bounces, with bounces =
\* hard_bounces + soft_bounces.
C24_DeliveredPlusBouncesIsSent ==
    StatsOfCounts =>
        /\ campaignStats.bounces =
               Num(reportSummary.hard_bounces[2] + reportSummary.soft_bounces[2])
        /\ campaignStats.emailsSent =
               JsAdd(campaignStats.delivered, campaignStats.bounces)

====
